---- MODULE Spec2Model ----
(***************************************************************************)
(* A model of src/main.py: the validation functions, the unit             *)
(* normalisations, the formula bank, the dispatch tables, the Persona     *)
(* entity and the two calculators.                                        *)
(*                                                                         *)
(* Python values are records [t, n, d, s]: t is the Python type, n/d the  *)
(* numeric value as a fraction in lowest terms (d > 0), s the characters  *)
(* of a string (a sequence of one-character strings, so that lower() and  *)
(* len() are computed and not assumed).  Arithmetic is exact rational     *)
(* arithmetic: the binary representation error of IEEE doubles is not     *)
(* modelled, and round(x, ndigits=2) is round-half-to-even on the exact   *)
(* value.                                                                  *)
(***************************************************************************)
EXTENDS Integers, Sequences, FiniteSets, TLC

VARIABLES persona, calc_kcal, calc_peso, last

vars == <<persona, calc_kcal, calc_peso, last>>

(***************************************************************************)
(* Bounds of the model.                                                    *)
(***************************************************************************)
\* numeric arguments of the validators range over -MaxNum..MaxNum (integers)
\* and over the halves k/2 in the same range (floats)
MaxNum == 1
\* weights passed to the BMI functions range over the integers 1..MaxPeso
MaxPeso == 40

(***************************************************************************)
(* Python values                                                           *)
(***************************************************************************)
Abs(x) == IF x < 0 THEN -x ELSE x

RECURSIVE GCD(_, _)
GCD(a, b) == IF b = 0 THEN a ELSE GCD(b, a % b)

None == [t |-> "NoneType", n |-> 0, d |-> 1, s |-> <<>>, parts |-> <<>>]

PyBool(b) == [t |-> "bool", n |-> IF b THEN 1 ELSE 0, d |-> 1, s |-> <<>>,
             parts |-> <<>>]

PyInt(k) == [t |-> "int", n |-> k, d |-> 1, s |-> <<>>,
             parts |-> <<>>]

\* the float n/d, d > 0, in lowest terms
PyFloat(n, d) ==
    LET g == GCD(Abs(n), d)
    IN  [t |-> "float", n |-> n \div g, d |-> d \div g, s |-> <<>>,
         parts |-> <<>>]

PyStr(chars) == [t |-> "str", n |-> 0, d |-> 1, s |-> chars, parts |-> <<>>]

\* a formatted message (an f-string): its fixed text and the values it embeds
PyMsg(text, values) ==
    [t |-> "str", n |-> 0, d |-> 1, s |-> <<text>>, parts |-> values]

\* a member of an Enum class: t is the class, s the member's value
Member(cls, chars) ==
    [t |-> cls, n |-> 0, d |-> 1, s |-> chars, parts |-> <<>>]

\* isinstance(x, str), isinstance(x, bool), isinstance(x, int),
\* isinstance(x, float), isinstance(x, (int, float)): bool is a subclass of int
IsStr(x) == x.t = "str"
IsBool(x) == x.t = "bool"
IsInt(x) == x.t \in {"int", "bool"}
IsFloat(x) == x.t = "float"
IsNumber(x) == IsInt(x) \/ IsFloat(x)

\* comparisons and arithmetic of numbers; a result of arithmetic is a float
Lt(a, b) == a.n * b.d < b.n * a.d
Le(a, b) == a.n * b.d <= b.n * a.d
NumEq(a, b) == a.n * b.d = b.n * a.d
LCM(a, b) == (a \div GCD(a, b)) * b
Add(a, b) ==
    LET l == LCM(a.d, b.d)
    IN  PyFloat(a.n * (l \div a.d) + b.n * (l \div b.d), l)
Sub(a, b) ==
    LET l == LCM(a.d, b.d)
    IN  PyFloat(a.n * (l \div a.d) - b.n * (l \div b.d), l)
Mul(a, b) == PyFloat(a.n * b.n, a.d * b.d)
Div(a, b) == IF b.n > 0 THEN PyFloat(a.n * b.d, a.d * b.n)
                        ELSE PyFloat(-(a.n * b.d), a.d * (-b.n))

\* round(x, ndigits=2): the nearest multiple of 1/100, ties to even
Round2(x) ==
    LET q == x.n \div x.d
        r == x.n % x.d
        h == (100 * r) \div x.d
        rest == (100 * r) % x.d
        up == \/ 2 * rest > x.d
              \/ 2 * rest = x.d /\ (q * 100 + h) % 2 = 1
    IN  PyFloat(q * 100 + h + (IF up THEN 1 ELSE 0), 100)

\* str.lower(), character by character
Upper == <<"A", "B", "C", "D", "E", "H", "I", "J", "K", "L", "M", "N",
           "O", "R", "S", "T", "U", "Z">>
LowerOf == <<"a", "b", "c", "d", "e", "h", "i", "j", "k", "l", "m", "n",
             "o", "r", "s", "t", "u", "z">>

LowerChar(c) ==
    IF \E i \in DOMAIN Upper : Upper[i] = c
    THEN LowerOf[CHOOSE i \in DOMAIN Upper : Upper[i] = c]
    ELSE c

Lower(chars) == [i \in DOMAIN chars |-> LowerChar(chars[i])]

(***************************************************************************)
(* The enumerations                                                        *)
(***************************************************************************)
hombre == <<"h", "o", "m", "b", "r", "e">>
mujer == <<"m", "u", "j", "e", "r">>

Generos == {hombre, mujer}

harris == <<"h", "a", "r", "r", "i", "s">>
mifflin == <<"m", "i", "f", "f", "l", "i", "n">>
fao_oms == <<"f", "a", "o", "/", "o", "m", "s">>
krumdieck == <<"k", "r", "u", "m", "d", "i", "e", "c", "k">>

FormulasCalculoKcal == {harris, mifflin, fao_oms, krumdieck}

lorentz == <<"l", "o", "r", "e", "n", "t", "z">>
perrault == <<"p", "e", "r", "r", "a", "u", "l", "t">>
brocca == <<"b", "r", "o", "c", "c", "a">>

FormulasPesoIdeal == {lorentz, perrault, brocca}

(***************************************************************************)
(* Outcomes of a call: a returned value, or a raised exception with the    *)
(* place that raised it.                                                   *)
(***************************************************************************)
Ok(v) == [status |-> "ok", msg |-> "", val |-> v]
Raise(exc, what) == [status |-> exc, msg |-> what, val |-> None]

(***************************************************************************)
(* Validation                                                              *)
(***************************************************************************)
\* the condition of the loop's if: a boolean, or a non-number, or <= 0
valor_numerico_sin_bool(value) ==
    \/ value # None /\ ~IsNumber(value)
    \/ value # None /\ IsNumber(value) /\ value.n <= 0

valor_numerico_invalido(value) ==
    \/ IsBool(value)
    \/ value # None /\ ~IsNumber(value)
    \/ value # None /\ IsNumber(value) /\ value.n <= 0

validar_data_persona(genero, peso, estatura, edad) ==
    LET g == IF IsStr(genero) THEN PyStr(Lower(genero.s)) ELSE genero
        en_generos_validos == IsStr(g) /\ g.s \in Generos
    IN  IF (g # None /\ ~en_generos_validos) \/ (g # None /\ ~IsStr(g))
        THEN Raise("ValueError", "genero")
        ELSE IF valor_numerico_invalido(peso)
        THEN Raise("ValueError", "peso")
        ELSE IF valor_numerico_invalido(estatura)
        THEN Raise("ValueError", "estatura")
        ELSE IF valor_numerico_invalido(edad)
        THEN Raise("ValueError", "edad")
        ELSE Ok(None)


\* the variant that forgets the ETA check
validar_formula_kcal_sin_eta(formula, eta) ==
    LET f == IF IsStr(formula) THEN PyStr(Lower(formula.s)) ELSE formula
    IN  IF ~(IsStr(f) \/ f.t = "FormulasCalculoKcal")
        THEN Raise("ValueError", "formula_tipo")
        ELSE IF IsStr(f) /\ f.s \notin FormulasCalculoKcal
        THEN Raise("ValueError", "formula_valida")
        ELSE Ok(None)

validar_formula_kcal(formula, eta) ==
    LET f == IF IsStr(formula) THEN PyStr(Lower(formula.s)) ELSE formula
    IN  IF ~IsBool(eta)
        THEN Raise("ValueError", "eta")
        ELSE IF ~(IsStr(f) \/ f.t = "FormulasCalculoKcal")
        THEN Raise("ValueError", "formula_tipo")
        ELSE IF IsStr(f) /\ f.s \notin FormulasCalculoKcal
        THEN Raise("ValueError", "formula_valida")
        ELSE Ok(None)

validar_formula_peso_ideal(formula) ==
    LET f == IF IsStr(formula) THEN PyStr(Lower(formula.s)) ELSE formula
    IN  IF ~(IsStr(f) \/ f.t = "FormulasPesoIdeal")
        THEN Raise("ValueError", "formula_tipo")
        ELSE IF IsStr(f) /\ f.s \notin FormulasPesoIdeal
        THEN Raise("ValueError", "formula_valida")
        ELSE Ok(None)

(***************************************************************************)
(* Unit normalisation.  The operators below are defined on numbers        *)
(* (int, float, bool); a call with None raises TypeError before they are  *)
(* reached.                                                                *)
(***************************************************************************)
\* the variant whose threshold is 100 and not 10
convertir_cm_a_metros_umbral_100(estatura) ==
    IF IsNumber(estatura) /\ Lt(PyInt(100), estatura)
    THEN Div(estatura, PyInt(100))
    ELSE PyFloat(estatura.n, estatura.d)

convertir_metros_a_cm(estatura) ==
    IF IsFloat(estatura) /\ Lt(estatura, PyInt(10))
    THEN Mul(estatura, PyInt(100))
    ELSE PyFloat(estatura.n, estatura.d)

convertir_cm_a_metros(estatura) ==
    IF IsNumber(estatura) /\ Lt(PyInt(10), estatura)
    THEN Div(estatura, PyInt(100))
    ELSE PyFloat(estatura.n, estatura.d)

(***************************************************************************)
(* The formula bank                                                        *)
(***************************************************************************)
\* an operand of arithmetic that is None raises TypeError
TypeErrorIn(values) == \E v \in values : ~IsNumber(v)

calcular_imc(peso, estatura) ==
    LET v == validar_data_persona(None, peso, estatura, None)
    IN  IF v.status # "ok" THEN v
        ELSE IF TypeErrorIn({peso, estatura}) THEN Raise("TypeError", "None")
        ELSE LET m == convertir_cm_a_metros(estatura)
             IN  Ok(Round2(Div(peso, Mul(m, m))))

peso_ideal_lorentz(genero, estatura, edad) ==
    IF TypeErrorIn({estatura, edad}) THEN Raise("TypeError", "None")
    ELSE LET cm == convertir_metros_a_cm(estatura)
             base == Sub(Sub(cm, PyInt(100)),
                         Div(Sub(cm, PyInt(150)), PyInt(4)))
         IN  IF genero = PyStr(mujer)
             THEN Ok(Round2(Add(base, Div(Sub(edad, PyInt(20)), PyInt(32)))))
             ELSE Ok(Round2(Add(base, Div(Sub(edad, PyInt(20)), PyInt(4)))))

peso_ideal_perrault(estatura, edad) ==
    IF TypeErrorIn({estatura, edad}) THEN Raise("TypeError", "None")
    ELSE LET cm == convertir_metros_a_cm(estatura)
         IN  Ok(Add(Sub(cm, PyInt(100)),
                    Mul(Div(edad, PyInt(10)), PyFloat(9, 10))))

brocca_peso_ideal(estatura) ==
    IF TypeErrorIn({estatura}) THEN Raise("TypeError", "None")
    ELSE Ok(Sub(convertir_metros_a_cm(estatura), PyInt(100)))

rango_peso_saludable(estatura) ==
    IF TypeErrorIn({estatura}) THEN Raise("TypeError", "None")
    ELSE LET m2 == IF IsFloat(estatura) /\ Lt(estatura, PyInt(10))
                   THEN Mul(estatura, estatura)
                   ELSE Mul(Div(estatura, PyInt(100)),
                            Div(estatura, PyInt(100)))
             peso_maximo == Round2(Mul(m2, PyFloat(2499, 100)))
             peso_minimo == Round2(Mul(m2, PyFloat(185, 10)))
         IN  Ok(PyMsg("peso minimo={}kg - maximo={}kg",
                      <<peso_minimo, peso_maximo>>))

calcular_eta(kcal_base) == Div(kcal_base, PyInt(10))

calcular_kcal_totales(kcal_base, usar_eta) ==
    IF usar_eta.n # 0
    THEN Round2(Add(kcal_base, calcular_eta(kcal_base)))
    ELSE Round2(kcal_base)

formula_kcal_harris(nombre, genero, estatura, peso, edad, usar_eta) ==
    IF TypeErrorIn({estatura, peso, edad}) THEN Raise("TypeError", "None")
    ELSE LET cm == convertir_metros_a_cm(estatura)
             formula_mujer ==
                 Sub(Add(Add(PyFloat(6551, 10), Mul(PyFloat(9563, 1000), peso)),
                         Mul(PyFloat(185, 100), cm)),
                     Mul(PyFloat(4676, 1000), edad))
             formula_hombre ==
                 Sub(Add(Add(PyFloat(665, 10), Mul(PyFloat(1375, 100), peso)),
                         Mul(PyFloat(5003, 1000), cm)),
                     Mul(PyFloat(6775, 1000), edad))
         IN  IF genero = PyStr(mujer)
             THEN Ok(PyMsg("harris", <<nombre,
                        calcular_kcal_totales(formula_mujer, usar_eta)>>))
             ELSE Ok(PyMsg("harris", <<nombre,
                        calcular_kcal_totales(formula_hombre, usar_eta)>>))

formula_kcal_mifflin(nombre, genero, estatura, peso, edad, usar_eta) ==
    IF TypeErrorIn({estatura, peso, edad}) THEN Raise("TypeError", "None")
    ELSE LET cm == convertir_metros_a_cm(estatura)
             comun == Sub(Add(Mul(PyInt(10), peso), Mul(PyFloat(625, 100), cm)),
                          Mul(PyInt(5), edad))
             formula_mujer == Sub(comun, PyInt(161))
             formula_hombre == Add(comun, PyInt(5))
         IN  IF genero = PyStr(mujer)
             THEN Ok(PyMsg("mifflin", <<nombre,
                        calcular_kcal_totales(formula_mujer, usar_eta)>>))
             ELSE Ok(PyMsg("mifflin", <<nombre,
                        calcular_kcal_totales(formula_hombre, usar_eta)>>))

formula_kcal_fao_oms(nombre, genero, estatura, peso, edad, usar_eta) ==
    IF TypeErrorIn({estatura, peso, edad}) THEN Raise("TypeError", "None")
    ELSE LET cm == convertir_metros_a_cm(estatura)
             formula_mujer ==
                 Sub(Add(Add(PyFloat(447593, 1000),
                             Mul(PyFloat(9247, 1000), peso)),
                         Mul(PyFloat(3098, 1000), cm)),
                     Mul(PyFloat(4330, 1000), edad))
             formula_hombre ==
                 Sub(Add(Add(PyFloat(88362, 1000),
                             Mul(PyFloat(13397, 1000), peso)),
                         Mul(PyFloat(4799, 1000), cm)),
                     Mul(PyFloat(5677, 1000), edad))
         IN  IF genero = PyStr(mujer)
             THEN Ok(PyMsg("fao/oms", <<nombre,
                        calcular_kcal_totales(formula_mujer, usar_eta)>>))
             ELSE Ok(PyMsg("fao/oms", <<nombre,
                        calcular_kcal_totales(formula_hombre, usar_eta)>>))

formula_kcal_krumdieck(peso, estatura) ==
    IF TypeErrorIn({peso, estatura}) THEN Raise("TypeError", "None")
    ELSE LET m == IF IsFloat(estatura) /\ Lt(estatura, PyInt(10))
                  THEN estatura
                  ELSE Div(estatura, PyInt(100))
         IN  Ok(Add(Mul(PyInt(30), peso), Mul(PyInt(40), m)))

(***************************************************************************)
(* Dispatch tables                                                         *)
(***************************************************************************)
\* a function object, by its name
Callable(name) ==
    [t |-> "function", n |-> 0, d |-> 1, s |-> <<name>>, parts |-> <<>>]

\* the keys of both tables of buscar_formula_kcal
ClavesFormulaKcal == {harris, mifflin, fao_oms}

NombreFormulaKcal(clave) ==
    CASE clave = harris -> "formula_kcal_harris"
      [] clave = mifflin -> "formula_kcal_mifflin"
      [] clave = fao_oms -> "formula_kcal_fao_oms"

buscar_formula_kcal(formula) ==
    IF IsStr(formula)
    THEN IF formula.s \in ClavesFormulaKcal
         THEN Ok(Callable(NombreFormulaKcal(formula.s)))
         ELSE Raise("KeyError", "obtener_formula_mediante_string")
    ELSE IF formula.t = "FormulasCalculoKcal" /\ formula.s \in ClavesFormulaKcal
         THEN Ok(Callable(NombreFormulaKcal(formula.s)))
         ELSE Raise("KeyError", "obtener_formula_mediante_miembro")

NombreFormulaPesoIdeal(clave) ==
    CASE clave = lorentz -> "peso_ideal_lorentz"
      [] clave = perrault -> "peso_ideal_perrault"
      [] clave = brocca -> "brocca_peso_ideal"

buscar_formula_peso_ideal(formula) ==
    IF IsStr(formula)
    THEN IF formula.s \in {lorentz, perrault, brocca}
         THEN Ok(Callable(NombreFormulaPesoIdeal(formula.s)))
         ELSE Raise("KeyError", "obtener_formula_mediante_string")
    ELSE IF formula.t = "FormulasPesoIdeal"
            /\ formula.s \in {lorentz, perrault, brocca}
         THEN Ok(Callable(NombreFormulaPesoIdeal(formula.s)))
         ELSE Raise("KeyError", "obtener_formula_mediante_miembro")

(***************************************************************************)
(* Objects: a Persona is [kind |-> "Persona", nombre, genero, peso,        *)
(* estatura, edad]; a dict is [kind |-> "dict", items |-> a function from  *)
(* its keys to its values].                                                *)
(***************************************************************************)
NoObject == [kind |-> "none"]

Dict(items) == [kind |-> "dict", items |-> items]

\* dict.get(key): None when the key is absent
Get(dict, key) ==
    IF key \in DOMAIN dict.items THEN dict.items[key] ELSE None

\* Persona(nombre, genero, peso, estatura, edad): the dataclass __init__
\* assigns the fields, then __post_init__ validates and lower-cases genero
Persona(nombre, genero, peso, estatura, edad) ==
    LET v == validar_data_persona(genero, peso, estatura, edad)
    IN  IF ~IsStr(nombre) \/ Len(nombre.s) < 5
        THEN [res |-> Raise("ValueError", "nombre"), obj |-> NoObject]
        ELSE IF v.status # "ok"
        THEN [res |-> v, obj |-> NoObject]
        ELSE IF ~IsStr(genero)
        THEN [res |-> Raise("AttributeError", "lower"), obj |-> NoObject]
        ELSE [res |-> Ok(None),
              obj |-> [kind |-> "Persona", nombre |-> nombre,
                       genero |-> PyStr(Lower(genero.s)), peso |-> peso,
                       estatura |-> estatura, edad |-> edad]]

\* persona.<field> = value: the dataclass is not frozen and the class in
\* force (the second definition) declares no property, so the assignment
\* stores the value as it is
SetAttr(obj, field, value) ==
    CASE field = "nombre" -> [obj EXCEPT !.nombre = value]
      [] field = "genero" -> [obj EXCEPT !.genero = value]
      [] field = "peso" -> [obj EXCEPT !.peso = value]
      [] field = "estatura" -> [obj EXCEPT !.estatura = value]
      [] field = "edad" -> [obj EXCEPT !.edad = value]

\* asdict(obj_persona)
data_calculo_kcal(obj_persona) ==
    [nombre |-> obj_persona.nombre, genero |-> obj_persona.genero,
     peso |-> obj_persona.peso, estatura |-> obj_persona.estatura,
     edad |-> obj_persona.edad]

\* the projection of the attributes the formula needs: a dict, or None when
\* the formula is a key of neither table
data_calculo_peso_ideal(obj_persona, formula) ==
    LET o == IF obj_persona.kind = "Persona"
             THEN Dict([k \in {"genero", "estatura", "edad"} |->
                          CASE k = "genero" -> obj_persona.genero
                            [] k = "estatura" -> obj_persona.estatura
                            [] k = "edad" -> obj_persona.edad])
             ELSE obj_persona
        data_formula_lorentz ==
            Dict([k \in {"genero", "estatura", "edad"} |-> Get(o, k)])
        data_formula_perrault ==
            Dict([k \in {"estatura", "edad"} |-> Get(o, k)])
        data_formula_brocca == Dict([k \in {"estatura"} |-> Get(o, k)])
        buscar(clave) ==
            CASE clave = lorentz -> data_formula_lorentz
              [] clave = perrault -> data_formula_perrault
              [] clave = brocca -> data_formula_brocca
              [] OTHER -> NoObject
    IN  IF IsStr(formula) THEN buscar(formula.s)
        ELSE IF formula.t = "FormulasPesoIdeal" THEN buscar(formula.s)
        ELSE NoObject

(***************************************************************************)
(* ValoracionNutricional                                                   *)
(***************************************************************************)
ValoracionNutricional_calcular_imc(peso, estatura) ==
    LET v == validar_data_persona(None, peso, estatura, None)
    IN  IF v.status # "ok" THEN v
        ELSE IF TypeErrorIn({peso, estatura}) THEN Raise("TypeError", "None")
        ELSE LET m == IF IsInt(estatura) THEN Div(estatura, PyInt(100))
                      ELSE estatura
             IN  Ok(Round2(Div(peso, Mul(m, m))))

\* the bands of diagnostico_imc, in the order of mensajes_diagnostico
mensajes_diagnostico ==
    <<"Te encuentras en un bajo peso", "Te encuentras en un peso saludable",
      "Te encuentras en sobrepeso", "Te encuentras en obesidad">>

mensaje_ninguno ==
    "No te encuentras en ninguno de los resultados, verifica bien los datos que ingresados"

\* the variant whose normal band is closed at 25
comprobacion_imc_normal_cerrado(resultado_imc) ==
    <<Lt(resultado_imc, PyFloat(185, 10)),
      Le(PyFloat(185, 10), resultado_imc) /\ Le(resultado_imc, PyInt(25)),
      Lt(PyFloat(2499, 100), resultado_imc) /\ Lt(resultado_imc, PyInt(30)),
      Lt(PyFloat(2999, 100), resultado_imc) /\ Lt(resultado_imc, PyInt(35))>>

\* [bajo_peso, peso_normal, sobrepeso, obesidad]
comprobacion_imc(resultado_imc) ==
    <<Lt(resultado_imc, PyFloat(185, 10)),
      Le(PyFloat(185, 10), resultado_imc) /\ Lt(resultado_imc, PyInt(25)),
      Lt(PyFloat(2499, 100), resultado_imc) /\ Lt(resultado_imc, PyInt(30)),
      Lt(PyFloat(2999, 100), resultado_imc) /\ Lt(resultado_imc, PyInt(35))>>

diagnostico_imc(peso, estatura) ==
    LET v == validar_data_persona(None, peso, estatura, None)
        r == ValoracionNutricional_calcular_imc(peso, estatura)
    IN  IF v.status # "ok" THEN v
        ELSE IF r.status # "ok" THEN r
        ELSE LET c == comprobacion_imc(r.val)
                 resultado == SelectSeq(<<1, 2, 3, 4>>, LAMBDA i : c[i])
             IN  IF resultado # <<>>
                 THEN Ok(PyStr(<<mensajes_diagnostico[resultado[1]]>>))
                 ELSE Ok(PyStr(<<mensaje_ninguno>>))

(***************************************************************************)
(* The calculators.  A method returns [res, called]: its outcome and the   *)
(* formula functions it invoked.                                           *)
(***************************************************************************)
\* CalculadoraDeCalorias(persona, formula, eta): __post_init__
CalculadoraDeCalorias(formula, eta) ==
    LET v == validar_formula_kcal(formula, eta)
    IN  IF v.status # "ok"
        THEN [res |-> v, obj |-> NoObject]
        ELSE [res |-> Ok(None),
              obj |-> [kind |-> "CalculadoraDeCalorias",
                       formula |-> IF IsStr(formula)
                                   THEN PyStr(Lower(formula.s))
                                   ELSE formula,
                       eta |-> eta]]

AplicarFormulaKcal(f, data, usar_eta) ==
    CASE f = Callable("formula_kcal_harris") ->
            formula_kcal_harris(data.nombre, data.genero, data.estatura,
                                data.peso, data.edad, usar_eta)
      [] f = Callable("formula_kcal_mifflin") ->
            formula_kcal_mifflin(data.nombre, data.genero, data.estatura,
                                 data.peso, data.edad, usar_eta)
      [] f = Callable("formula_kcal_fao_oms") ->
            formula_kcal_fao_oms(data.nombre, data.genero, data.estatura,
                                 data.peso, data.edad, usar_eta)

CalculadoraDeCalorias_calcular(self, self_persona) ==
    LET persona_data == data_calculo_kcal(self_persona)
        formula_kcal_a_usar == buscar_formula_kcal(self.formula)
    IN  IF formula_kcal_a_usar.status # "ok"
        THEN [res |-> formula_kcal_a_usar, called |-> <<>>]
        ELSE [res |-> AplicarFormulaKcal(formula_kcal_a_usar.val,
                                         persona_data, self.eta),
              called |-> formula_kcal_a_usar.val.s]

\* CalculadoraPesoIdeal(persona, formula): __post_init__
claves_esperadas == {"genero", "estatura", "edad"}

\* the variant that only requires the expected keys to be present
CalculadoraPesoIdeal_claves_incluidas(p, formula) ==
    LET v == IF p.kind = "dict"
             THEN validar_data_persona(Get(p, "genero"), None,
                                       Get(p, "estatura"), Get(p, "edad"))
             ELSE Ok(None)
        vf == validar_formula_peso_ideal(formula)
    IN  IF p.kind = "dict" /\ ~(claves_esperadas \subseteq DOMAIN p.items)
        THEN [res |-> Raise("ValueError", "claves"), obj |-> NoObject]
        ELSE IF v.status # "ok" THEN [res |-> v, obj |-> NoObject]
        ELSE IF vf.status # "ok" THEN [res |-> vf, obj |-> NoObject]
        ELSE [res |-> Ok(None),
              obj |-> [kind |-> "CalculadoraPesoIdeal", persona |-> p,
                       formula |-> formula]]

CalculadoraPesoIdeal(p, formula) ==
    LET v == IF p.kind = "dict"
             THEN validar_data_persona(Get(p, "genero"), None,
                                       Get(p, "estatura"), Get(p, "edad"))
             ELSE Ok(None)
        vf == validar_formula_peso_ideal(formula)
    IN  IF p.kind = "dict" /\ DOMAIN p.items # claves_esperadas
        THEN [res |-> Raise("ValueError", "claves"), obj |-> NoObject]
        ELSE IF v.status # "ok" THEN [res |-> v, obj |-> NoObject]
        ELSE IF vf.status # "ok" THEN [res |-> vf, obj |-> NoObject]
        ELSE [res |-> Ok(None),
              obj |-> [kind |-> "CalculadoraPesoIdeal", persona |-> p,
                       formula |-> formula]]

\* formula_peso_ideal(**data_calculo)
AplicarFormulaPesoIdeal(f, data) ==
    CASE f = Callable("peso_ideal_lorentz") ->
            IF DOMAIN data.items = {"genero", "estatura", "edad"}
            THEN peso_ideal_lorentz(data.items["genero"],
                                    data.items["estatura"], data.items["edad"])
            ELSE Raise("TypeError", "argumentos")
      [] f = Callable("peso_ideal_perrault") ->
            IF DOMAIN data.items = {"estatura", "edad"}
            THEN peso_ideal_perrault(data.items["estatura"], data.items["edad"])
            ELSE Raise("TypeError", "argumentos")
      [] f = Callable("brocca_peso_ideal") ->
            IF DOMAIN data.items = {"estatura"}
            THEN brocca_peso_ideal(data.items["estatura"])
            ELSE Raise("TypeError", "argumentos")

\* self.persona is the dict given at construction, or the Persona object
CalculadoraPesoIdeal_calcular(self, self_persona) ==
    LET data_calculo == data_calculo_peso_ideal(self_persona, self.formula)
        formula_peso_ideal == buscar_formula_peso_ideal(self.formula)
    IN  IF formula_peso_ideal.status # "ok"
        THEN [res |-> formula_peso_ideal, called |-> <<>>]
        ELSE IF data_calculo.kind = "none"
        THEN [res |-> Raise("TypeError", "argumentos"), called |-> <<>>]
        ELSE [res |-> AplicarFormulaPesoIdeal(formula_peso_ideal.val,
                                              data_calculo),
              called |-> formula_peso_ideal.val.s]

(***************************************************************************)
(* Inputs                                                                  *)
(***************************************************************************)
kevin == <<"k", "e", "v", "i", "n">>
perr == <<"p", "e", "r", "r">>
MUJER == <<"M", "U", "J", "E", "R">>
Hombre == <<"H", "o", "m", "b", "r", "e">>
hom == <<"h", "o", "m">>

GeneroArgs ==
    {None, PyStr(hombre), PyStr(mujer), PyStr(MUJER), PyStr(Hombre),
     PyStr(hom), PyInt(1), PyBool(TRUE), Member("Generos", hombre)}

NumeroArgs ==
    {None, PyBool(TRUE), PyBool(FALSE), PyStr(<<"7", "5">>)}
        \cup {PyInt(k) : k \in -MaxNum .. MaxNum}
        \cup {PyFloat(k, 2) : k \in -MaxNum .. MaxNum}

FormulaKcalArgs ==
    {PyStr(f) : f \in FormulasCalculoKcal}
        \cup {Member("FormulasCalculoKcal", f) : f \in FormulasCalculoKcal}
        \cup {PyStr(<<"H", "A", "R", "R", "I", "S">>),
              PyStr(<<"K", "r", "u", "m", "d", "i", "e", "c", "k">>),
              PyStr(lorentz), Member("FormulasPesoIdeal", lorentz),
              None, PyInt(1)}

EtaArgs == {PyBool(TRUE), PyBool(FALSE), PyInt(1), None, PyStr(<<"s", "i">>)}

FormulaPesoIdealArgs ==
    {PyStr(f) : f \in FormulasPesoIdeal}
        \cup {Member("FormulasPesoIdeal", f) : f \in FormulasPesoIdeal}
        \cup {PyStr(<<"L", "O", "R", "E", "N", "T", "Z">>),
              PyStr(<<"P", "e", "r", "r", "a", "u", "l", "t">>),
              PyStr(harris), Member("FormulasCalculoKcal", harris), None}

\* weights: the integers 1..MaxPeso, the band edges of the diagnosis as
\* floats, and invalid weights
PesoArgs ==
    {PyInt(k) : k \in 1 .. MaxPeso}
        \cup {PyFloat(1849, 100), PyFloat(185, 10), PyFloat(2499, 100),
              PyFloat(2999, 100), PyFloat(3499, 100), PyFloat(9996, 100),
              PyInt(75), PyInt(100), PyInt(140)}
        \cup {PyInt(0), PyInt(-5), PyBool(TRUE), None}

\* heights in centimeters and in meters, around the thresholds of the two
\* normalisations, and invalid heights
EstaturaArgs ==
    {PyInt(5), PyInt(9), PyInt(10), PyInt(11), PyInt(100), PyInt(170),
     PyInt(200), PyInt(1000), PyInt(1001), PyInt(1500),
     PyFloat(1, 2), PyFloat(17, 10), PyFloat(2, 1), PyFloat(19, 2),
     PyFloat(10, 1), PyFloat(21, 2), PyFloat(341, 2), PyFloat(170, 1)}
        \cup {PyInt(0), PyInt(-170), PyBool(TRUE), None}

\* arguments of the direct calls of the formulas
EstaturaFormulaArgs ==
    {PyInt(170), PyFloat(17, 10), PyInt(-5), PyInt(0), PyBool(TRUE)}
EdadFormulaArgs == {PyInt(22), PyInt(52), PyInt(-1), PyBool(TRUE)}
PesoFormulaArgs == {PyInt(75), PyInt(-5), PyBool(FALSE)}
GeneroFormulaArgs == {PyStr(hombre), PyStr(mujer), PyStr(MUJER)}

\* arguments of Persona(...)
NombreArgs == {PyStr(kevin), PyStr(perr), PyInt(12345), None}
GeneroPersonaArgs == {PyStr(hombre), PyStr(MUJER), PyStr(hom), None}
PesoPersonaArgs == {PyInt(75), PyFloat(151, 2), PyInt(-5), PyBool(TRUE), None}
EstaturaPersonaArgs == {PyFloat(17, 10), PyInt(170), PyInt(0), None}
EdadPersonaArgs == {PyInt(22), PyFloat(45, 2), PyInt(-1), None}

\* values assigned to the attributes of an existing Persona
AtributoArgs(field) ==
    CASE field = "nombre" -> {PyStr(perr), PyStr(<<"k", "e", "v", "i", "n", "2">>)}
      [] field = "genero" -> {PyStr(hom), PyStr(mujer)}
      [] field = "peso" -> {PyInt(-5), PyInt(80)}
      [] field = "estatura" -> {PyInt(0), PyInt(165)}
      [] field = "edad" -> {PyInt(-1), PyInt(23)}

\* the Persona objects the calculators are given
PersonasIniciales ==
    {Persona(PyStr(kevin), PyStr(hombre), PyInt(75), PyFloat(17, 10),
             PyInt(22)).obj,
     Persona(PyStr(kevin), PyStr(MUJER), PyInt(60), PyInt(165),
             PyInt(52)).obj}

\* the dicts given to CalculadoraPesoIdeal: every subset of four keys
ClavesDict == {"genero", "estatura", "edad", "extra"}

ValoresDict(k) ==
    CASE k = "genero" -> {PyStr(hombre), PyStr(mujer), PyStr(MUJER), PyStr(hom), None}
      [] k = "estatura" -> {PyInt(170), PyFloat(17, 10), PyInt(-5), None}
      [] k = "edad" -> {PyInt(52), PyInt(20), PyBool(TRUE)}
      [] k = "extra" -> {PyInt(1)}

DictArgs ==
    UNION {{Dict(f) : f \in {g \in [K -> UNION {ValoresDict(k) : k \in K}] :
                                 \A k \in K : g[k] \in ValoresDict(k)}} :
           K \in SUBSET ClavesDict}

(***************************************************************************)
(* State: the Persona object, the two calculators, and the last call with  *)
(* its arguments, its outcome and the formula functions it invoked.        *)
(***************************************************************************)
PendingRes == [status |-> "pending", msg |-> "", val |-> None]

Pending(op, args) ==
    [op |-> op, args |-> args, res |-> PendingRes, called |-> <<>>]

IsPending(op) == last.op = op /\ last.res.status = "pending"

Return(r) == [last EXCEPT !.res = r]

PendingFunciones ==
    {Pending("validar_data_persona",
             [genero |-> g, peso |-> p, estatura |-> e, edad |-> a]) :
         g \in GeneroArgs, p \in NumeroArgs, e \in NumeroArgs, a \in NumeroArgs}
    \cup
    {Pending(op, [peso |-> p, estatura |-> e]) :
         op \in {"calcular_imc", "ValoracionNutricional.calcular_imc",
                 "diagnostico_imc"},
         p \in PesoArgs, e \in EstaturaArgs}
    \cup
    {Pending(op, [estatura |-> e]) :
         op \in {"convertir_cm_a_metros", "convertir_metros_a_cm"},
         e \in EstaturaArgs \ {None}}
    \cup
    {Pending(op, [estatura |-> e]) :
         op \in {"brocca_peso_ideal", "rango_peso_saludable"},
         e \in EstaturaFormulaArgs}
    \cup
    {Pending("peso_ideal_perrault", [estatura |-> e, edad |-> a]) :
         e \in EstaturaFormulaArgs, a \in EdadFormulaArgs}
    \cup
    {Pending("peso_ideal_lorentz", [genero |-> g, estatura |-> e, edad |-> a]) :
         g \in GeneroFormulaArgs, e \in EstaturaFormulaArgs,
         a \in EdadFormulaArgs}
    \cup
    {Pending("formula_kcal_krumdieck", [peso |-> p, estatura |-> e]) :
         p \in PesoFormulaArgs, e \in EstaturaFormulaArgs}
    \cup
    {Pending(op, [nombre |-> PyStr(kevin), genero |-> g, estatura |-> e,
                  peso |-> p, edad |-> a, usar_eta |-> u]) :
         op \in {"formula_kcal_harris", "formula_kcal_mifflin",
                 "formula_kcal_fao_oms"},
         g \in GeneroFormulaArgs, e \in EstaturaFormulaArgs,
         p \in PesoFormulaArgs, a \in EdadFormulaArgs,
         u \in {PyBool(TRUE), PyBool(FALSE)}}

PendingPersona ==
    {Pending("Persona", [nombre |-> n, genero |-> g, peso |-> p,
                         estatura |-> e, edad |-> a]) :
         n \in NombreArgs, g \in GeneroPersonaArgs, p \in PesoPersonaArgs,
         e \in EstaturaPersonaArgs, a \in EdadPersonaArgs}

PendingKcal ==
    {Pending(op, [formula |-> f, eta |-> u]) :
         op \in {"validar_formula_kcal", "CalculadoraDeCalorias"},
         f \in FormulaKcalArgs, u \in EtaArgs}

\* the argument persona of CalculadoraPesoIdeal is a dict, or the Persona
\* object of the state (persona |-> NoObject stands for it here)
PendingPesoIdeal ==
    {Pending("CalculadoraPesoIdeal", [persona |-> p, formula |-> f]) :
         p \in DictArgs \cup {NoObject}, f \in FormulaPesoIdealArgs}

InitFunciones ==
    /\ persona = NoObject
    /\ calc_kcal = NoObject
    /\ calc_peso = NoObject
    /\ last \in PendingFunciones

InitPersona ==
    /\ persona = NoObject
    /\ calc_kcal = NoObject
    /\ calc_peso = NoObject
    /\ last \in PendingPersona

InitKcal ==
    /\ persona \in PersonasIniciales
    /\ calc_kcal = NoObject
    /\ calc_peso = NoObject
    /\ last \in PendingKcal

InitPesoIdeal ==
    /\ persona \in PersonasIniciales
    /\ calc_kcal = NoObject
    /\ calc_peso = NoObject
    /\ last \in PendingPesoIdeal

Init == InitFunciones \/ InitPersona \/ InitKcal \/ InitPesoIdeal

(***************************************************************************)
(* Actions: the direct calls of the functions                              *)
(***************************************************************************)
Objects == <<persona, calc_kcal, calc_peso>>

CallValidarDataPersona ==
    /\ IsPending("validar_data_persona")
    /\ last' = Return(validar_data_persona(last.args.genero, last.args.peso,
                                           last.args.estatura, last.args.edad))
    /\ UNCHANGED Objects

CallCalcularImc ==
    /\ IsPending("calcular_imc")
    /\ last' = Return(calcular_imc(last.args.peso, last.args.estatura))
    /\ UNCHANGED Objects

CallValoracionCalcularImc ==
    /\ IsPending("ValoracionNutricional.calcular_imc")
    /\ last' = Return(ValoracionNutricional_calcular_imc(last.args.peso,
                                                         last.args.estatura))
    /\ UNCHANGED Objects

CallDiagnosticoImc ==
    /\ IsPending("diagnostico_imc")
    /\ last' = Return(diagnostico_imc(last.args.peso, last.args.estatura))
    /\ UNCHANGED Objects

CallConvertirCmAMetros ==
    /\ IsPending("convertir_cm_a_metros")
    /\ last' = Return(Ok(convertir_cm_a_metros(last.args.estatura)))
    /\ UNCHANGED Objects

CallConvertirMetrosACm ==
    /\ IsPending("convertir_metros_a_cm")
    /\ last' = Return(Ok(convertir_metros_a_cm(last.args.estatura)))
    /\ UNCHANGED Objects

CallBroccaPesoIdeal ==
    /\ IsPending("brocca_peso_ideal")
    /\ last' = [Return(brocca_peso_ideal(last.args.estatura))
                   EXCEPT !.called = <<"brocca_peso_ideal">>]
    /\ UNCHANGED Objects

CallRangoPesoSaludable ==
    /\ IsPending("rango_peso_saludable")
    /\ last' = [Return(rango_peso_saludable(last.args.estatura))
                   EXCEPT !.called = <<"rango_peso_saludable">>]
    /\ UNCHANGED Objects

CallPesoIdealPerrault ==
    /\ IsPending("peso_ideal_perrault")
    /\ last' = [Return(peso_ideal_perrault(last.args.estatura, last.args.edad))
                   EXCEPT !.called = <<"peso_ideal_perrault">>]
    /\ UNCHANGED Objects

CallPesoIdealLorentz ==
    /\ IsPending("peso_ideal_lorentz")
    /\ last' = [Return(peso_ideal_lorentz(last.args.genero, last.args.estatura,
                                          last.args.edad))
                   EXCEPT !.called = <<"peso_ideal_lorentz">>]
    /\ UNCHANGED Objects

CallFormulaKcalKrumdieck ==
    /\ IsPending("formula_kcal_krumdieck")
    /\ last' = [Return(formula_kcal_krumdieck(last.args.peso,
                                              last.args.estatura))
                   EXCEPT !.called = <<"formula_kcal_krumdieck">>]
    /\ UNCHANGED Objects

CallFormulaKcalHarris ==
    /\ IsPending("formula_kcal_harris")
    /\ last' = [Return(formula_kcal_harris(last.args.nombre, last.args.genero,
                           last.args.estatura, last.args.peso, last.args.edad,
                           last.args.usar_eta))
                   EXCEPT !.called = <<"formula_kcal_harris">>]
    /\ UNCHANGED Objects

CallFormulaKcalMifflin ==
    /\ IsPending("formula_kcal_mifflin")
    /\ last' = [Return(formula_kcal_mifflin(last.args.nombre, last.args.genero,
                           last.args.estatura, last.args.peso, last.args.edad,
                           last.args.usar_eta))
                   EXCEPT !.called = <<"formula_kcal_mifflin">>]
    /\ UNCHANGED Objects

CallFormulaKcalFaoOms ==
    /\ IsPending("formula_kcal_fao_oms")
    /\ last' = [Return(formula_kcal_fao_oms(last.args.nombre, last.args.genero,
                           last.args.estatura, last.args.peso, last.args.edad,
                           last.args.usar_eta))
                   EXCEPT !.called = <<"formula_kcal_fao_oms">>]
    /\ UNCHANGED Objects

(***************************************************************************)
(* Actions: the Persona                                                    *)
(***************************************************************************)
NewPersona ==
    /\ IsPending("Persona")
    /\ persona = NoObject
    /\ LET r == Persona(last.args.nombre, last.args.genero, last.args.peso,
                        last.args.estatura, last.args.edad)
       IN  /\ persona' = r.obj
           /\ last' = Return(r.res)
    /\ UNCHANGED <<calc_kcal, calc_peso>>

\* persona.<field> = value, as the demo entry point does
AsignarAtributo ==
    /\ persona.kind = "Persona"
    /\ \E field \in {"nombre", "genero", "peso", "estatura", "edad"} :
           \E value \in AtributoArgs(field) :
               /\ persona' = SetAttr(persona, field, value)
               /\ last' = [op |-> "setattr",
                           args |-> [field |-> field, value |-> value],
                           res |-> Ok(None), called |-> <<>>]
    /\ UNCHANGED <<calc_kcal, calc_peso>>

(***************************************************************************)
(* Actions: CalculadoraDeCalorias                                          *)
(***************************************************************************)
CallValidarFormulaKcal ==
    /\ IsPending("validar_formula_kcal")
    /\ last' = Return(validar_formula_kcal(last.args.formula, last.args.eta))
    /\ UNCHANGED Objects

NewCalculadoraDeCalorias ==
    /\ IsPending("CalculadoraDeCalorias")
    /\ persona.kind = "Persona"
    /\ calc_kcal = NoObject
    /\ LET r == CalculadoraDeCalorias(last.args.formula, last.args.eta)
       IN  /\ calc_kcal' = r.obj
           /\ last' = Return(r.res)
    /\ UNCHANGED <<persona, calc_peso>>

CalcularKcal ==
    /\ calc_kcal.kind = "CalculadoraDeCalorias"
    /\ persona.kind = "Persona"
    /\ LET r == CalculadoraDeCalorias_calcular(calc_kcal, persona)
       IN  last' = [op |-> "CalculadoraDeCalorias.calcular", args |-> <<>>,
                    res |-> r.res, called |-> r.called]
    /\ UNCHANGED Objects

(***************************************************************************)
(* Actions: CalculadoraPesoIdeal                                           *)
(***************************************************************************)
NewCalculadoraPesoIdeal ==
    /\ IsPending("CalculadoraPesoIdeal")
    /\ persona.kind = "Persona"
    /\ calc_peso = NoObject
    /\ LET p == IF last.args.persona.kind = "dict" THEN last.args.persona
                ELSE persona
           r == CalculadoraPesoIdeal(p, last.args.formula)
       IN  /\ calc_peso' = r.obj
           /\ last' = Return(r.res)
    /\ UNCHANGED <<persona, calc_kcal>>

CalcularPesoIdeal ==
    /\ calc_peso.kind = "CalculadoraPesoIdeal"
    /\ LET p == IF calc_peso.persona.kind = "dict" THEN calc_peso.persona
                ELSE persona
           r == CalculadoraPesoIdeal_calcular(calc_peso, p)
       IN  last' = [op |-> "CalculadoraPesoIdeal.calcular", args |-> <<>>,
                    res |-> r.res, called |-> r.called]
    /\ UNCHANGED Objects

(***************************************************************************)
(* Specifications                                                          *)
(***************************************************************************)
NextFunciones ==
    \/ CallValidarDataPersona
    \/ CallCalcularImc
    \/ CallValoracionCalcularImc
    \/ CallDiagnosticoImc
    \/ CallConvertirCmAMetros
    \/ CallConvertirMetrosACm
    \/ CallBroccaPesoIdeal
    \/ CallRangoPesoSaludable
    \/ CallPesoIdealPerrault
    \/ CallPesoIdealLorentz
    \/ CallFormulaKcalKrumdieck
    \/ CallFormulaKcalHarris
    \/ CallFormulaKcalMifflin
    \/ CallFormulaKcalFaoOms

NextPersona == NewPersona \/ AsignarAtributo

NextKcal == CallValidarFormulaKcal \/ NewCalculadoraDeCalorias \/ CalcularKcal

NextPesoIdeal == NewCalculadoraPesoIdeal \/ CalcularPesoIdeal

Next == NextFunciones \/ NextPersona \/ NextKcal \/ NextPesoIdeal

Spec == Init /\ [][Next]_vars

\* the direct calls of the functions
SpecFunciones == InitFunciones /\ [][NextFunciones]_vars

\* a Persona is constructed, then its attributes are assigned
SpecPersona == InitPersona /\ [][NextPersona]_vars

\* a CalculadoraDeCalorias is constructed for a Persona, then calcular()
SpecKcal == InitKcal /\ [][NextKcal]_vars

\* a CalculadoraPesoIdeal is constructed for a dict or a Persona, then
\* calcular()
SpecPesoIdeal == InitPesoIdeal /\ [][NextPesoIdeal]_vars

(***************************************************************************)
(* Properties                                                              *)
(***************************************************************************)
Done(op) == last.op = op /\ last.res.status # "pending"

\* a sex the validation rejects: non-null, and not a string or not one of
\* hombre, mujer once lower-cased
GeneroRechazado(g) ==
    g # None /\ (IF g.t = "str" THEN Lower(g.s) \notin {hombre, mujer} ELSE TRUE)

\* a weight, height or age the validation rejects: a boolean, or non-null
\* and not numeric, or non-null and <= 0
NumeroRechazado(v) ==
    \/ v.t = "bool"
    \/ v # None /\ v.t \notin {"int", "float"}
    \/ v # None /\ v.t \in {"int", "float"} /\ v.n <= 0

\* C1: validar_data_persona raises ValueError if and only if genero is
\* rejected or one of peso, estatura, edad is rejected; an absent (None)
\* parameter is skipped; the call returns nothing and changes no object.
C1_ValidarDataPersona ==
    Done("validar_data_persona") =>
        LET a == last.args
        IN  /\ last.res.status \in {"ok", "ValueError"}
            /\ last.res.status = "ValueError" <=>
                   \/ GeneroRechazado(a.genero)
                   \/ \E v \in {a.peso, a.estatura, a.edad} : NumeroRechazado(v)
            /\ last.res.val = None
            /\ Objects = <<NoObject, NoObject, NoObject>>

\* C1 witness: a boolean weight is rejected although the sex, in upper
\* case, is valid and height and age are absent
C1_Witness ==
    /\ Done("validar_data_persona")
    /\ last.args.genero = PyStr(MUJER)
    /\ last.args.peso = PyBool(TRUE)
    /\ last.args.estatura = None
    /\ last.args.edad = None
    /\ last.res = Raise("ValueError", "peso")

\* the fields of a Persona as the claims C2 and C3 require them
NombreValido(v) == v.t = "str" /\ Len(v.s) >= 5
GeneroValido(v) == v.t = "str" /\ Lower(v.s) \in {hombre, mujer}
NumeroPositivo(v) == v.t \in {"int", "float"} /\ v.n > 0
EnteroPositivo(v) == v.t = "int" /\ v.n > 0

\* C2: constructing a Persona succeeds only when nombre is text of at least
\* 5 characters, genero is hombre or mujer in any letter case, peso and
\* estatura are positive non-boolean numbers and edad is a positive integer;
\* every other combination (a None field included) fails with ValueError;
\* on success the stored genero is in lower case.
C2_PersonaSoloValida ==
    Done("Persona") =>
        LET a == last.args
            valida == /\ NombreValido(a.nombre)
                      /\ GeneroValido(a.genero)
                      /\ NumeroPositivo(a.peso)
                      /\ NumeroPositivo(a.estatura)
                      /\ EnteroPositivo(a.edad)
        IN  IF valida
            THEN /\ last.res.status = "ok"
                 /\ persona.kind = "Persona"
                 /\ persona.genero = PyStr(Lower(a.genero.s))
            ELSE /\ last.res.status = "ValueError"
                 /\ persona = NoObject

\* the construction-time rules C3 names
CamposValidos(p) ==
    /\ NombreValido(p.nombre)
    /\ p.genero \in {PyStr(hombre), PyStr(mujer)}
    /\ NumeroPositivo(p.peso)
    /\ NumeroPositivo(p.estatura)
    /\ NumeroPositivo(p.edad)

\* C3: a Persona is immutable after construction: no operation on an
\* existing Persona whose fields satisfy the construction-time rules leads
\* to a Persona whose fields do not.
C3_PersonaInmutable ==
    [][(persona.kind = "Persona" /\ CamposValidos(persona))
          => (persona'.kind = "Persona" /\ CamposValidos(persona'))]_vars

\* C4: once a CalculadoraDeCalorias was constructed (validar_formula_kcal
\* did not raise), calcular() resolves a formula function: no KeyError.
C4_SinKeyError ==
    last.op = "CalculadoraDeCalorias.calcular" =>
        /\ last.res.status # "KeyError"
        /\ last.called # <<>>

\* the value of the Lorentz branch of a sex, for a height in centimeters
LorentzDeGenero(genero, cm, edad) ==
    LET base == Sub(Sub(cm, PyInt(100)), Div(Sub(cm, PyInt(150)), PyInt(4)))
    IN  IF genero = mujer
        THEN Round2(Add(base, Div(Sub(edad, PyInt(20)), PyInt(32))))
        ELSE Round2(Add(base, Div(Sub(edad, PyInt(20)), PyInt(4))))

\* C5: sex is case-insensitive: for a raw map accepted by
\* CalculadoraPesoIdeal, calcular() with the Lorentz formula returns the
\* value of the branch of the map's sex, whatever its letter case.
C5_GeneroSinDistinguirMayusculas ==
    (/\ last.op = "CalculadoraPesoIdeal.calcular"
     /\ last.res.status = "ok"
     /\ calc_peso.persona.kind = "dict"
     /\ calc_peso.formula \in {PyStr(lorentz), Member("FormulasPesoIdeal", lorentz)}
     /\ IsStr(Get(calc_peso.persona, "genero")))
        => LET d == calc_peso.persona
           IN  NumEq(last.res.val,
                     LorentzDeGenero(Lower(Get(d, "genero").s),
                                     convertir_metros_a_cm(Get(d, "estatura")),
                                     Get(d, "edad")))

\* a formula identifier of the ideal-weight family: a member of
\* FormulasPesoIdeal, or a string that names one in any letter case
FormulaPesoIdealValida(f) ==
    \/ f.t = "FormulasPesoIdeal"
    \/ f.t = "str" /\ Lower(f.s) \in {lorentz, perrault, brocca}

\* C6: CalculadoraPesoIdeal given a raw map fails with ValueError whenever
\* the key set is not exactly {genero, estatura, edad}, whenever one of the
\* three values fails validar_data_persona, or whenever the formula is
\* invalid; the key set is checked before the values (and the values before
\* the formula); on failure no calculator exists and no formula was invoked.
C6_DictValidado ==
    (Done("CalculadoraPesoIdeal") /\ last.args.persona.kind = "dict") =>
        LET d == last.args.persona
            claves_ok == DOMAIN d.items = {"genero", "estatura", "edad"}
            valores == validar_data_persona(Get(d, "genero"), None,
                                            Get(d, "estatura"), Get(d, "edad"))
        IN  /\ ~claves_ok => last.res = Raise("ValueError", "claves")
            /\ (claves_ok /\ valores.status # "ok") =>
                   /\ last.res.status = "ValueError"
                   /\ last.res.msg \in {"genero", "estatura", "edad"}
            /\ (claves_ok /\ valores.status = "ok"
                   /\ ~FormulaPesoIdealValida(last.args.formula)) =>
                   /\ last.res.status = "ValueError"
                   /\ last.res.msg \in {"formula_tipo", "formula_valida"}
            /\ last.res.status # "ok" =>
                   /\ calc_peso = NoObject
                   /\ last.called = <<>>

\* C6 witness: the map {genero: hombre, estatura: 1.70, edad: 52, extra: 1}
\* with the formula lorentz is refused for its keys
C6_Witness ==
    /\ Done("CalculadoraPesoIdeal")
    /\ last.args.persona.kind = "dict"
    /\ DOMAIN last.args.persona.items = {"genero", "estatura", "edad", "extra"}
    /\ Get(last.args.persona, "genero") = PyStr(hombre)
    /\ Get(last.args.persona, "estatura") = PyFloat(17, 10)
    /\ Get(last.args.persona, "edad") = PyInt(52)
    /\ last.args.formula = PyStr(lorentz)
    /\ last.res = Raise("ValueError", "claves")
    /\ calc_peso = NoObject

\* a formula identifier validar_formula_kcal rejects
FormulaKcalRechazada(f) ==
    \/ f.t \notin {"str", "FormulasCalculoKcal"}
    \/ f.t = "str" /\ Lower(f.s) \notin {harris, mifflin, fao_oms, krumdieck}

\* C7: validar_formula_kcal raises ValueError if and only if eta is not a
\* boolean or the formula is rejected; the eta check comes first; and
\* constructing a CalculadoraDeCalorias fails exactly in those cases.
C7_ValidarFormulaKcal ==
    (Done("validar_formula_kcal") \/ Done("CalculadoraDeCalorias")) =>
        LET a == last.args
        IN  /\ last.res.status \in {"ok", "ValueError"}
            /\ last.res.status = "ValueError" <=>
                   (a.eta.t # "bool" \/ FormulaKcalRechazada(a.formula))
            /\ a.eta.t # "bool" => last.res.msg = "eta"
            /\ last.op = "CalculadoraDeCalorias" =>
                   (last.res.status = "ok" <=>
                        calc_kcal.kind = "CalculadoraDeCalorias")

\* C7 witness: a construction with eta = 1 and a formula that is no formula
\* identifier fails on the eta check
C7_Witness ==
    /\ Done("CalculadoraDeCalorias")
    /\ last.args.eta = PyInt(1)
    /\ last.args.formula = None
    /\ last.res = Raise("ValueError", "eta")
    /\ calc_kcal = NoObject

\* the height in meters of heightToMeters: a value above 10 is centimeters
Metros(h) == IF Lt(PyInt(10), h) THEN Div(h, PyInt(100)) ELSE h

\* the two statements of C8 for the call calcular_imc(W, H)
ImcEsperado(w, h) ==
    /\ last.res.status = "ok"
    /\ NumEq(last.res.val, Round2(Div(w, Mul(Metros(h), Metros(h)))))
    /\ last.res = calcular_imc(w, Div(h, PyInt(100)))

\* C8 as stated: for every valid W > 0 and H > 0, calcular_imc(W, H) is
\* W / (height in meters)^2 rounded to 2 decimals, and
\* calcular_imc(W, H) = calcular_imc(W, H / 100).
C8_Original ==
    (/\ Done("calcular_imc")
     /\ NumeroPositivo(last.args.peso)
     /\ NumeroPositivo(last.args.estatura))
        => ImcEsperado(last.args.peso, last.args.estatura)

\* C8 as amended: the same for the heights H with 10 < H <= 1000, the
\* values the heuristic takes as centimeters whose hundredth it takes as
\* meters.
C8_Amended ==
    (/\ Done("calcular_imc")
     /\ NumeroPositivo(last.args.peso)
     /\ NumeroPositivo(last.args.estatura)
     /\ Lt(PyInt(10), last.args.estatura)
     /\ Le(last.args.estatura, PyInt(1000)))
        => ImcEsperado(last.args.peso, last.args.estatura)

\* C8 witness: calcular_imc(75, 170) = 25.95 = calcular_imc(75, 1.70)
C8_Witness ==
    /\ Done("calcular_imc")
    /\ last.args.peso = PyInt(75)
    /\ last.args.estatura = PyInt(170)
    /\ last.res = Ok(PyFloat(2595, 100))
    /\ calcular_imc(PyInt(75), PyFloat(17, 10)) = Ok(PyFloat(2595, 100))

\* the bands of C9, in their order
BandasImc(imc) ==
    <<Lt(imc, PyFloat(185, 10)),
      Le(PyFloat(185, 10), imc) /\ Lt(imc, PyInt(25)),
      Lt(PyFloat(2499, 100), imc) /\ Lt(imc, PyInt(30)),
      Lt(PyFloat(2999, 100), imc) /\ Lt(imc, PyInt(35))>>

\* C9: diagnostico_imc returns the message of the first band that holds of
\* the computed BMI, or the fallback message; at most one band holds; the
\* fallback is returned if and only if BMI >= 35.
C9_DiagnosticoImc ==
    (Done("diagnostico_imc") /\ last.res.status = "ok") =>
        LET imc == ValoracionNutricional_calcular_imc(last.args.peso,
                                                      last.args.estatura).val
            b == BandasImc(imc)
            esperado == IF b[1] THEN "Te encuentras en un bajo peso"
                        ELSE IF b[2] THEN "Te encuentras en un peso saludable"
                        ELSE IF b[3] THEN "Te encuentras en sobrepeso"
                        ELSE IF b[4] THEN "Te encuentras en obesidad"
                        ELSE mensaje_ninguno
        IN  /\ last.res.val = PyStr(<<esperado>>)
            /\ Cardinality({i \in 1 .. 4 : b[i]}) <= 1
            /\ last.res.val = PyStr(<<mensaje_ninguno>>) <=> Le(PyInt(35), imc)

\* C9 witness: a BMI of exactly 25 (weight 100, height 2.0) is overweight
C9_Witness ==
    /\ Done("diagnostico_imc")
    /\ last.args.peso = PyInt(100)
    /\ last.args.estatura = PyFloat(2, 1)
    /\ last.res = Ok(PyStr(<<"Te encuentras en sobrepeso">>))

\* the public computations that receive a weight, a height or an age
Computaciones ==
    {"calcular_imc", "rango_peso_saludable", "formula_kcal_krumdieck",
     "formula_kcal_harris", "formula_kcal_mifflin", "formula_kcal_fao_oms",
     "peso_ideal_lorentz", "peso_ideal_perrault", "brocca_peso_ideal"}

\* C10: validation is eager: a computation given a weight, height or age
\* that is <= 0 or a boolean fails with ValueError and returns no result.
C10_ValidacionEnTodoElSistema ==
    (/\ last.op \in Computaciones
     /\ last.res.status # "pending"
     /\ \E k \in DOMAIN last.args \cap {"peso", "estatura", "edad"} :
            \/ last.args[k].t = "bool"
            \/ last.args[k].t \in {"int", "float"} /\ last.args[k].n <= 0)
        => last.res.status = "ValueError"

\* C11: for every formula identifier CalculadoraPesoIdeal accepted (a member
\* of FormulasPesoIdeal, or a string in any letter case), calcular() invokes
\* the formula the identifier names on exactly the attributes it needs: the
\* lookup and the projection never miss (no KeyError, no null projection,
\* no argument mismatch).
C11_FormulaPesoIdealResuelta ==
    last.op = "CalculadoraPesoIdeal.calcular" =>
        /\ last.res.status # "KeyError"
        /\ last.res.msg # "argumentos"
        /\ last.called =
               <<NombreFormulaPesoIdeal(Lower(calc_peso.formula.s))>>
        /\ LET p == IF calc_peso.persona.kind = "dict" THEN calc_peso.persona
                    ELSE persona
               data == data_calculo_peso_ideal(p, calc_peso.formula)
               clave == Lower(calc_peso.formula.s)
           IN  /\ data.kind = "dict"
               /\ DOMAIN data.items =
                      (CASE clave = lorentz -> {"genero", "estatura", "edad"}
                         [] clave = perrault -> {"estatura", "edad"}
                         [] clave = brocca -> {"estatura"})

\* C12: the two height normalisations agree on the unit of every positive
\* height h: convertir_metros_a_cm(h) = 100 * convertir_cm_a_metros(h).
C12_NormalizacionesInversas ==
    (/\ Done("convertir_metros_a_cm")
     /\ NumeroPositivo(last.args.estatura))
        => NumEq(last.res.val,
                 Mul(PyInt(100), convertir_cm_a_metros(last.args.estatura)))

\* C13: the BMI that diagnostico_imc classifies is the library's BMI: for
\* every valid weight and height, ValoracionNutricional.calcular_imc(peso,
\* estatura) = calcular_imc(peso, estatura).
C13_MismoImc ==
    (/\ Done("ValoracionNutricional.calcular_imc")
     /\ NumeroPositivo(last.args.peso)
     /\ NumeroPositivo(last.args.estatura))
        => last.res = calcular_imc(last.args.peso, last.args.estatura)

====
